---- MODULE Spec2Model ----
(***************************************************************************)
(* uLA: Micro Logic Analyzer (dotcypress/ula).                             *)
(*                                                                         *)
(* The firmware as a state machine: the SUMP command parser and dispatcher *)
(* of analyzer.rs, the trigger compiler of trigger.rs, the sampler of      *)
(* sampler.rs with its DMA sink and the PIO state machine that runs the    *)
(* compiled trigger, and the two interrupt handlers of main.rs             *)
(* (usb_irq -> poll_serial, dma_irq -> acquisition_done), which RTIC runs  *)
(* to completion under one lock, so each handler is one atomic action.     *)
(*                                                                         *)
(* Bytes are 0..255. A u32 is the record of its two 16-bit halves, hi and   *)
(* lo (its value is 65536 * hi + lo), a u16 and a usize are integers.      *)
(* Sequences are 1-based: the source's scratch[i] is scratch[i+1] here.    *)
(***************************************************************************)
EXTENDS Integers, Sequences, FiniteSets, TLC

VARIABLES
    wire,        \* bytes the host has sent that no serial.read has returned yet
    scratch,     \* LogicAnalyzer.scratch, all ScratchLen bytes of it
    needle,      \* LogicAnalyzer.needle
    trigger,     \* LogicAnalyzer.trigger: the four TriggerStages
    sampler,     \* LogicAnalyzer.sampler: sink, program, divisor, samples, ch_groups
    sample_mem,  \* the static capture buffer the sink owns
    irq,         \* DMA_IRQ_0 pending
    status_led,  \* LogicAnalyzer.status_led
    coproc,      \* the PIO state machine: program counter and its latest stage pass
    halted,      \* a panic stopped the firmware (panic_probe)
    last,        \* what the most recent handler run did: command, output, chunks
    rearmed,     \* the latest start found the sink InProgress and aborted its transfer
    harness      \* the delivery experiment: phase, stream, first run's commands

vars == <<wire, scratch, needle, trigger, sampler, sample_mem, irq, status_led,
          coproc, halted, last, rearmed, harness>>

----------------------------------------------------------------------------
(* Program constants *)

PROBES == 16
SAMPLE_MEMORY == 200000
SAMPLE_RATE == 100000000
PROGRAM_SIZE == 32

(* Bounds of the model *)

\* Length of scratch; [u8; 64] in the source.
ScratchLen == 6
\* Number of two-word chunks of the capture buffer; SAMPLE_MEMORY / 8 in the source.
MemChunks == 3
\* Longest byte stream of a delivery experiment.
MaxStream == 5

----------------------------------------------------------------------------
(* Integers as machine words *)

Min(a, b) == IF a < b THEN a ELSE b

Pow2(n) == 2 ^ n

U16(x) == x % 65536

\* The u32 of the halves hi and lo
W32(hi, lo) == [hi |-> hi, lo |-> lo]

\* x as u32, for a u16 or u8 x
AsU32(x) == W32(0, x)

\* w as u16, for a u32 w
AsU16(w) == w.lo

\* Byte i (0-based, from the low end) of the integer x
le_byte(x, i) == (x \div Pow2(8 * i)) % 256

\* u32::to_le_bytes
to_le_bytes(w) ==
    <<le_byte(w.lo, 0), le_byte(w.lo, 1), le_byte(w.hi, 0), le_byte(w.hi, 1)>>

\* usize::to_be_bytes on the 32-bit target, for a usize x below 2^31
to_be_bytes(x) == <<le_byte(x, 3), le_byte(x, 2), le_byte(x, 1), le_byte(x, 0)>>

\* u16::from_le_bytes of two bytes
u16_from_le_bytes(b) == b[1] + 256 * b[2]

\* u32::from_le_bytes of four bytes
u32_from_le_bytes(b) == W32(b[3] + 256 * b[4], b[1] + 256 * b[2])

Bit(x, i) == (x \div Pow2(i)) % 2

\* w >> k of a u32, 0 <= k < 32
shr(w, k) ==
    IF k >= 16 THEN W32(0, w.hi \div Pow2(k - 16))
    ELSE W32(w.hi \div Pow2(k), (w.lo \div Pow2(k)) + (w.hi % Pow2(k)) * Pow2(16 - k))

\* w & ((1 << bits) - 1) of a u32, bits <= 16
low_bits(w, bits) == w.lo % Pow2(bits)

RECURSIVE tz16(_)
\* The trailing zeros of a 16-bit half that is not 0
tz16(x) == IF x % 2 = 1 THEN 0 ELSE 1 + tz16(x \div 2)

RECURSIVE to16(_)
\* The trailing ones of a 16-bit half
to16(x) == IF x % 2 = 0 THEN 0 ELSE 1 + to16(x \div 2)

\* u32::trailing_zeros: 32 for 0
trailing_zeros(w) ==
    IF w.lo # 0 THEN tz16(w.lo)
    ELSE IF w.hi # 0 THEN 16 + tz16(w.hi)
    ELSE 32

\* u32::trailing_ones
trailing_ones(w) ==
    IF w.lo = 65535 THEN 16 + to16(w.hi) ELSE to16(w.lo)

----------------------------------------------------------------------------
(* analyzer.rs: SumpCommand and the parser *)

Cmd(op, stage, arg) == [op |-> op, stage |-> stage, arg |-> arg]

\* parse_command's None
NoCmd == Cmd("None", 0, 0)

\* scratch[a..b] of the source (0-based, b exclusive)
Slice(s, a, b) == [i \in 1..(b - a) |-> s[a + i]]

\* serial.read(&mut self.scratch[self.needle..]) returning Ok(n) with the bytes data
read_into(s, ndl, data) ==
    [i \in 1..ScratchLen |->
        IF ndl < i /\ i <= ndl + Len(data) THEN data[i - ndl] ELSE s[i]]

\* copy_within as a shift that starts one byte too far
copy_within_mut(s, n) ==
    [i \in 1..ScratchLen |-> IF i + n + 1 <= ScratchLen THEN s[i + n + 1] ELSE s[i]]

\* self.scratch.copy_within(n.., 0)
copy_within(s, n) ==
    [i \in 1..ScratchLen |-> IF i + n <= ScratchLen THEN s[i + n] ELSE s[i]]

\* drain_rx that takes one byte more off needle
drain_rx_mut(s, ndl, n) == [scratch |-> copy_within(s, n), needle |-> ndl - n - 1]

\* drain_rx: the buffer and needle after n bytes are drained
drain_rx(s, ndl, n) == [scratch |-> copy_within(s, n), needle |-> ndl - n]

\* stage_of with the opcode stride taken for 2
stage_of_mut(opcode, base) == (opcode - base) \div 2

\* (self.scratch[0] - base) / 4
stage_of(opcode, base) == (opcode - base) \div 4

\* The long-form arms of parse_command: the command a 5-byte frame decodes to,
\* NoCmd for an opcode of no arm.
decode_long(s) ==
    LET opcode == s[1] IN
    IF opcode = 128 THEN
        Cmd("SetDivisor", 0, AsU16(u32_from_le_bytes(Slice(s, 1, 5))))
    ELSE IF opcode = 129 THEN
        Cmd("SetReadCount", 0, u16_from_le_bytes(Slice(s, 1, 3)))
    ELSE IF opcode = 130 THEN
        Cmd("SetFlags", 0, s[2])
    ELSE IF opcode \in {192, 196, 200, 204} THEN
        Cmd("SetTriggerMask", stage_of(opcode, 192), u32_from_le_bytes(Slice(s, 1, 5)))
    ELSE IF opcode \in {193, 197, 201, 205} THEN
        Cmd("SetTriggerValues", stage_of(opcode, 193), u32_from_le_bytes(Slice(s, 1, 5)))
    ELSE IF opcode \in {194, 198, 202, 206} THEN
        Cmd("SetTriggerDelay", stage_of(opcode, 194),
            AsU32(u16_from_le_bytes(Slice(s, 1, 3))))
    ELSE NoCmd

\* decode_short with GetMeta on opcode 0x03
decode_short_mut(opcode) ==
    IF opcode = 0 THEN Cmd("Reset", 0, 0)
    ELSE IF opcode = 1 THEN Cmd("Arm", 0, 0)
    ELSE IF opcode = 2 THEN Cmd("GetId", 0, 0)
    ELSE IF opcode = 3 THEN Cmd("GetMeta", 0, 0)
    ELSE NoCmd

\* The short arms of parse_command, NoCmd for any other first byte
decode_short(opcode) ==
    IF opcode = 0 THEN Cmd("Reset", 0, 0)
    ELSE IF opcode = 1 THEN Cmd("Arm", 0, 0)
    ELSE IF opcode = 2 THEN Cmd("GetId", 0, 0)
    ELSE IF opcode = 4 THEN Cmd("GetMeta", 0, 0)
    ELSE NoCmd

\* long_window that opens at 4 bytes
long_window_mut(ndl) == ndl > 3

\* The guard of the long-form arm: cmd if self.needle > 4
long_window(ndl) == ndl > 4

\* parse_command after serial.read returned Ok(n), n > 0, with the bytes data:
\* the command (or NoCmd), the buffer and the needle it leaves.
parse_command(s, ndl, data) ==
    LET s1 == read_into(s, ndl, data)
        n1 == ndl + Len(data)
        short == decode_short(s1[1])
        long == decode_long(s1)
        keep == [scratch |-> s1, needle |-> n1]
    IN  IF short.op # "None" THEN
            [cmd |-> short] @@ drain_rx(s1, n1, 1)
        ELSE IF long_window(n1) THEN
            IF long.op # "None" THEN [cmd |-> long] @@ drain_rx(s1, n1, 5)
            ELSE [cmd |-> NoCmd] @@ drain_rx(s1, n1, 1)
        ELSE [cmd |-> NoCmd] @@ keep

----------------------------------------------------------------------------
(* trigger.rs: TriggerStage, Trigger and the compiler *)

Stages == 0..3

\* Trigger::default()
DefaultTrigger ==
    [st \in Stages |-> [mask |-> AsU32(0), pattern |-> AsU32(0), delay |-> AsU32(0)]]

set_mask(t, stage, mask) == [t EXCEPT ![stage].mask = mask]

\* set_pattern that stores the pattern as the mask too
set_pattern_mut(t, stage, pattern) ==
    [t EXCEPT ![stage].pattern = pattern, ![stage].mask = pattern]

set_pattern(t, stage, pattern) == [t EXCEPT ![stage].pattern = pattern]

set_delay(t, stage, delay) == [t EXCEPT ![stage].delay = delay]

\* One instruction of the assembler: operation, operand name, number (bit count,
\* immediate value or jump target address).
Ins(op, arg, n) == [op |-> op, arg |-> arg, n |-> n]

\* chunk_bits with chunks of at most 4 bits
chunk_bits_mut(ones) == Min(ones, 4)

\* The largest chunk one set/out/jmp triple compares: ones.min(5)
chunk_bits(ones) == Min(ones, 5)

RECURSIVE scan_mask(_, _, _)
\* The loop of compile over one stage's mask and pattern; label is the address
\* stage_label is bound to.
scan_mask(mask, pattern, label) ==
    LET zeros == trailing_zeros(mask) IN
    IF zeros = 32 THEN <<>>
    ELSE
        LET skip == IF zeros = 0 THEN <<>> ELSE <<Ins("out", "NULL", zeros)>>
            m1 == shr(mask, zeros)
            p1 == shr(pattern, zeros)
            ones == trailing_ones(m1)
        IN  IF ones = 0 THEN skip \o scan_mask(m1, p1, label)
            ELSE IF ones = 1 THEN
                LET cond == IF low_bits(p1, 1) = 1 THEN "XIsZero" ELSE "XDecNonZero" IN
                skip \o <<Ins("out", "X", 1), Ins("jmp", cond, label)>>
                     \o scan_mask(shr(m1, 1), shr(p1, 1), label)
            ELSE
                LET bits == chunk_bits(ones)
                    val == low_bits(p1, bits)
                IN  skip \o <<Ins("set", "Y", val), Ins("out", "X", bits),
                              Ins("jmp", "XNotEqualY", label)>>
                         \o scan_mask(shr(m1, bits), shr(p1, bits), label)

\* compile_stage whose jumps go to the start of the program
compile_stage_mut(stage, label) ==
    <<Ins("mov", "OSR_BitReverse_PINS", 0)>> \o scan_mask(stage.mask, stage.pattern, 0)

\* The instructions of one stage, bound at address label
compile_stage(stage, label) ==
    <<Ins("mov", "OSR_BitReverse_PINS", 0)>> \o scan_mask(stage.mask, stage.pattern, label)

\* stage_enabled without the filter
stage_enabled_mut(stage) == TRUE

\* self.stages.iter().filter(|s| s.mask != 0)
stage_enabled(stage) == stage.mask # AsU32(0)

RECURSIVE compile_stages(_, _, _)
\* The for loop of compile from stage index st on, code being what is assembled so far
compile_stages(t, st, code) ==
    IF st > 3 THEN code
    ELSE IF stage_enabled(t[st])
        THEN compile_stages(t, st + 1, code \o compile_stage(t[st], Len(code)))
        ELSE compile_stages(t, st + 1, code)

\* The wrap body: asm.r#in(pio::InSource::PINS, PROBES)
wrap_body == <<Ins("in", "PINS", PROBES)>>

\* Every instruction compile pushes, in order (the assembler holds PROGRAM_SIZE)
compile_code(t) == compile_stages(t, 0, <<>>) \o wrap_body

\* Trigger::compile, when the assembler does not overflow:
\* assemble_with_wrap(wrap_source, wrap_target).set_origin(Some(0))
compile(t) ==
    LET code == compile_code(t) IN
    [code |-> code,
     wrap_target |-> Len(code) - Len(wrap_body),
     wrap_source |-> Len(code) - 1,
     origin |-> 0]

\* pio::Assembler<32> panics on the push of instruction 33
assembler_overflow(t) == Len(compile_code(t)) > PROGRAM_SIZE

----------------------------------------------------------------------------
(* sampler.rs *)

\* The program Sampler::new installs: asm.push(true, true), default wrap, no origin
DefaultProgram ==
    [code |-> <<Ins("push", "iffull_block", 0)>>,
     wrap_target |-> 0, wrap_source |-> 0, origin |-> -1]

\* Sampler::new. sink: which Sink variant holds channel, rx and buffer ("None"
\* after take()); busy: the DMA transfer of Sink::InProgress is still running;
\* pio: the programs installed in the PIO; clkdiv: the integer clock divisor of
\* the state machine.
NewSampler ==
    [sink |-> "StandBy", ingest |-> TRUE, busy |-> FALSE,
     pio |-> <<DefaultProgram>>, clkdiv |-> 1,
     divisor |-> 0, samples |-> 0, ch_groups |-> <<FALSE, FALSE>>]

set_flags(s, flags) ==
    [s EXCEPT !.ch_groups = <<Bit(flags, 2) = 0, Bit(flags, 3) = 0>>]

\* set_divisor that reprograms the clock divider of the state machine at once
set_divisor_mut(s, divisor) == [s EXCEPT !.divisor = divisor, !.clkdiv = U16(divisor + 1)]

set_divisor(s, divisor) == [s EXCEPT !.divisor = divisor]

set_sample_memory(s, samples) == [s EXCEPT !.samples = samples]

\* self.divisor + 1 in u16, when it does not overflow or overflow checks are off
clock_divisor(divisor) == U16(divisor + 1)

\* The divider the state machine runs at with the integer part int of its
\* clock divisor: the hardware takes 0 for 65536
effective_divider(int) == IF int = 0 THEN 65536 ELSE int

\* self.divisor + 1 overflows u16
divisor_overflow(divisor) == divisor + 1 > 65535

\* uninstall that leaves the program in place
uninstall_mut(progs) == progs

\* self.pio.uninstall(old): the program the state machine ran, the one
\* installed last, leaves the PIO
uninstall(progs) == SubSeq(progs, 1, Len(progs) - 1)

\* self.pio.install(&program)
install(progs, program) == Append(progs, program)

\* Sampler::start when it panics: the sink and the ingest were taken, the old
\* program is uninstalled, an in-flight transfer was aborted. The panic of
\* self.divisor + 1 comes after the new program is installed, the other two
\* before.
start_panic(s, t) ==
    [s EXCEPT !.sink = "None", !.ingest = FALSE, !.busy = FALSE,
              !.pio = IF s.sink = "None" \/ ~s.ingest THEN s.pio
                      ELSE IF assembler_overflow(t) THEN uninstall(s.pio)
                      ELSE install(uninstall(s.pio), compile(t))]

\* start_ok that leaves a sink that is InProgress as it is
start_ok_mut(s, t) ==
    IF s.sink = "InProgress" THEN s
    ELSE [s EXCEPT !.sink = "InProgress", !.ingest = TRUE, !.busy = TRUE,
                   !.pio = <<compile(t)>>, !.clkdiv = clock_divisor(s.divisor)]

\* Sampler::start when it returns
start_ok(s, t) ==
    [s EXCEPT !.sink = "InProgress", !.ingest = TRUE, !.busy = TRUE,
              !.pio = install(uninstall(s.pio), compile(t)),
              !.clkdiv = clock_divisor(s.divisor)]

\* Whether Sampler::start panics: unreachable!() on a missing sink or ingest,
\* the assembler overflow in compile, and self.divisor + 1 in a build with
\* overflow checks (checks says whether the build has them).
start_panics(s, t, checks) ==
    \/ s.sink = "None"
    \/ ~s.ingest
    \/ assembler_overflow(t)
    \/ (checks /\ divisor_overflow(s.divisor))

start(s, t, checks) ==
    IF start_panics(s, t, checks) THEN start_panic(s, t) ELSE start_ok(s, t)

\* sample_mem.chunks(2): the number of chunks
num_chunks(mem) == (Len(mem) + 1) \div 2

\* sample_mem.chunks(2): chunk k (0-based)
chunk_at(mem, k) == Slice(mem, 2 * k, Min(2 * k + 2, Len(mem)))

\* take_count as .take(self.samples)
take_count_mut(mem, samples) == Min(samples, num_chunks(mem))

\* .take(self.samples + 1): how many chunks the loop of drain visits
take_count(mem, samples) == Min(samples + 1, num_chunks(mem))

\* drain_order without .rev()
drain_order_mut(mem, samples) ==
    LET cnt == Min(samples + 1, (Len(mem) + 1) \div 2) IN [i \in 1..cnt |-> i - 1]

\* .chunks(2).take(self.samples + 1).rev(): the chunk indices in loop order
drain_order(mem, samples) ==
    LET cnt == take_count(mem, samples) IN [i \in 1..cnt |-> cnt - i]

\* write_chunk with the two words of the chunk exchanged
write_chunk_mut(chunk, ch_groups) ==
    LET s02 == to_le_bytes(chunk[1])
        s13 == to_le_bytes(chunk[2])
    IN  IF ch_groups = <<TRUE, FALSE>> THEN <<s02[1], s02[3], s13[1], s13[3]>>
        ELSE IF ch_groups = <<FALSE, TRUE>> THEN <<s02[2], s02[4], s13[2], s13[4]>>
        ELSE IF ch_groups = <<TRUE, TRUE>> THEN s02 \o s13
        ELSE <<>>

\* The body of the loop of drain: the bytes written for one chunk
write_chunk(chunk, ch_groups) ==
    LET s02 == to_le_bytes(chunk[2])
        s13 == to_le_bytes(chunk[1])
    IN  IF ch_groups = <<TRUE, FALSE>> THEN <<s02[1], s02[3], s13[1], s13[3]>>
        ELSE IF ch_groups = <<FALSE, TRUE>> THEN <<s02[2], s02[4], s13[2], s13[4]>>
        ELSE IF ch_groups = <<TRUE, TRUE>> THEN s02 \o s13
        ELSE <<>>

RECURSIVE write_chunks(_, _, _)
\* The loop of drain over the chunk indices order: all bytes written
write_chunks(mem, order, ch_groups) ==
    IF order = <<>> THEN <<>>
    ELSE write_chunk(chunk_at(mem, Head(order)), ch_groups)
            \o write_chunks(mem, Tail(order), ch_groups)

\* drain_out that writes the chunks whatever the sink is
drain_out_mut(s, mem) == write_chunks(mem, drain_order(mem, s.samples), s.ch_groups)

\* Sampler::drain: the bytes written to serial
drain_out(s, mem) ==
    IF s.sink = "InProgress"
        THEN write_chunks(mem, drain_order(mem, s.samples), s.ch_groups)
        ELSE <<>>

\* drain that puts the default program back
drain_default_mut(s) ==
    IF s.sink = "InProgress"
        THEN [s EXCEPT !.sink = "StandBy", !.busy = FALSE, !.pio = <<DefaultProgram>>]
        ELSE s

\* drain that does not abort the transfer
drain_busy_mut(s) ==
    IF s.sink = "InProgress" THEN [s EXCEPT !.sink = "StandBy"]
    ELSE s

\* drain that takes the sink and does not put it back
drain_mut(s) ==
    IF s.sink = "InProgress" THEN [s EXCEPT !.sink = "None", !.busy = FALSE]
    ELSE s

\* Sampler::drain: the sampler it leaves
drain(s) ==
    IF s.sink = "InProgress" THEN [s EXCEPT !.sink = "StandBy", !.busy = FALSE]
    ELSE s

----------------------------------------------------------------------------
(* analyzer.rs: the dispatcher of poll_serial *)

\* b"1ALS"
DeviceId == <<49, 65, 76, 83>>

\* b"uLA: Micro Logic Analyzer"
DeviceName ==
    <<117, 76, 65, 58, 32, 77, 105, 99, 114, 111, 32, 76, 111, 103, 105, 99, 32,
      65, 110, 97, 108, 121, 122, 101, 114>>

\* The writes of the GetMeta arm, in order
MetaBlock ==
    <<1>> \o DeviceName \o <<0, 32>> \o to_be_bytes(PROBES)
        \o <<33>> \o to_be_bytes(SAMPLE_MEMORY)
        \o <<35>> \o to_be_bytes(SAMPLE_RATE)
        \o <<36, 0, 0, 0, 2, 0>>

\* response with the id bytes in the wrong order
response_mut(cmd) ==
    IF cmd.op = "GetId" THEN <<83, 76, 65, 49>>
    ELSE IF cmd.op = "GetMeta" THEN MetaBlock
    ELSE <<>>

\* The bytes the arm of cmd writes to serial
response(cmd) ==
    IF cmd.op = "GetId" THEN DeviceId
    ELSE IF cmd.op = "GetMeta" THEN MetaBlock
    ELSE <<>>

\* needle_after with a Reset arm that leaves needle alone
needle_after_mut(cmd, ndl) == ndl

\* needle after the arm of cmd: the Reset arm sets it to 0
needle_after(cmd, ndl) == IF cmd.op = "Reset" THEN 0 ELSE ndl

\* self.trigger after the arm of cmd
trigger_after(cmd, t) ==
    IF cmd.op = "SetTriggerMask" /\ cmd.stage < 4 THEN set_mask(t, cmd.stage, cmd.arg)
    ELSE IF cmd.op = "SetTriggerValues" /\ cmd.stage < 4 THEN set_pattern(t, cmd.stage, cmd.arg)
    ELSE IF cmd.op = "SetTriggerDelay" /\ cmd.stage < 4 THEN set_delay(t, cmd.stage, cmd.arg)
    ELSE t

\* self.sampler after the arm of cmd
sampler_after(cmd, s, t, checks) ==
    IF cmd.op = "Arm" THEN start(s, t, checks)
    ELSE IF cmd.op = "SetFlags" THEN set_flags(s, cmd.arg)
    ELSE IF cmd.op = "SetDivisor" THEN set_divisor(s, cmd.arg)
    ELSE IF cmd.op = "SetReadCount" THEN set_sample_memory(s, cmd.arg)
    ELSE s

----------------------------------------------------------------------------
(* The hardware around the handlers *)

\* DMA_IRQ_0 after Transfer::abort: aborting a running channel can raise a
\* completion interrupt (RP2040-E13), and one that is already latched may or
\* may not survive the abort; with neither there is none.
abort_irq(busy, pending, spurious) == IF busy \/ pending THEN spurious ELSE FALSE

\* The capture buffer Sampler::new allocates: [0x00; SAMPLE_MEMORY / 4]
EmptyMem == [i \in 1..(2 * MemChunks) |-> AsU32(0)]

\* Byte j (0-based) of word i of the buffer as capture k leaves it: every byte
\* of a buffer differs from every other.
FillByte(k, i, j) == (64 * k + 4 * i + j) % 256

FillWord(k, i) ==
    W32(FillByte(k, i, 2) + 256 * FillByte(k, i, 3),
        FillByte(k, i, 0) + 256 * FillByte(k, i, 1))

\* The captures the hardware can deliver
Fills == {1, 2}

FillMem(k) == [i \in 1..(2 * MemChunks) |-> FillWord(k, i)]

----------------------------------------------------------------------------
(* The PIO state machine that runs the installed program, as start builds it:
   out_shift_direction(ShiftDirection::Left), in_pin_base(PIN_BASE), no
   autopull. A register of the state machine is the sequence of its bits from
   the most significant one down. *)

\* Bit i of the u32 w
WordBit(w, i) == IF i < 16 THEN Bit(w.lo, i) ELSE Bit(w.hi, i - 16)

\* mov osr, ::pins: the OSR holds the pins in reverse bit order, pin 0 in its
\* most significant bit
mov_bit_reverse(pins) == [i \in 1..32 |-> WordBit(pins, i - 1)]

RECURSIVE bits_value(_)
\* The number a sequence of bits, most significant first, stands for
bits_value(b) ==
    IF b = <<>> THEN 0 ELSE 2 * bits_value(SubSeq(b, 1, Len(b) - 1)) + b[Len(b)]

\* out with the shift direction Left: the value written to the destination is
\* the n most significant bits of the OSR
out_value(osr, n) == bits_value(SubSeq(osr, 1, n))

\* out with the shift direction Left: the OSR after n bits are shifted out
out_shift(osr, n) == SubSeq(osr, n + 1, 32) \o [i \in 1..n |-> 0]

\* Whether jmp cond is taken with the scratch registers x and y
jmp_taken(cond, x, y) ==
    IF cond = "XIsZero" THEN x = 0
    ELSE IF cond = "XDecNonZero" THEN x # 0
    ELSE IF cond = "XNotEqualY" THEN x # y
    ELSE TRUE

RECURSIVE run_stage(_, _, _, _, _, _, _)
\* The state machine runs code from address pc, having entered the stage at
\* label, until a jmp is taken (the stage starts over: through is FALSE) or
\* the next stage or the wrap body is reached (through is TRUE).
run_stage(code, label, pc, pins, osr, x, y) ==
    LET ins == code[pc + 1] IN
    IF ins.op = "mov" THEN
        IF pc = label
            THEN run_stage(code, label, pc + 1, pins, mov_bit_reverse(pins), x, y)
            ELSE [pc |-> pc, through |-> TRUE]
    ELSE IF ins.op = "out" THEN
        IF ins.arg = "X"
            THEN run_stage(code, label, pc + 1, pins, out_shift(osr, ins.n),
                           out_value(osr, ins.n), y)
            ELSE run_stage(code, label, pc + 1, pins, out_shift(osr, ins.n), x, y)
    ELSE IF ins.op = "set" THEN
        run_stage(code, label, pc + 1, pins, osr, x, ins.n)
    ELSE IF ins.op = "jmp" THEN
        IF jmp_taken(ins.arg, x, y)
            THEN [pc |-> ins.n, through |-> FALSE]
            ELSE run_stage(code, label, pc + 1, pins, osr, x, y)
    ELSE [pc |-> pc, through |-> TRUE]

\* The state machine as sm.start() leaves it: at the origin of the program, no
\* stage run yet
Restarted == [pc |-> 0, label |-> -1, pins |-> AsU32(0), through |-> FALSE]

\* The state machine stands at the label of a trigger stage of the program
at_stage(s, c) ==
    /\ s.ingest
    /\ Len(s.pio) = 1
    /\ c.pc < s.pio[1].wrap_target
    /\ s.pio[1].code[c.pc + 1].op = "mov"

\* The state machine loops the wrap body: in pins with autopush feeds the RX
\* FIFO the transfer reads
capturing(s, c) ==
    /\ s.ingest
    /\ Len(s.pio) = 1
    /\ c.pc = s.pio[1].wrap_target
    /\ s.pio[1].code[c.pc + 1].op = "in"

----------------------------------------------------------------------------
(* The handlers *)

\* The record of a handler run: the handler, the command parse_command yielded,
\* the bytes written to serial, the chunk indices the loop of drain visited,
\* whether the sink was InProgress when the handler began, and the bytes
\* scratch[0..needle] held after serial.read, before any was drained.
Ran(handler, cmd, out, chunks, armed, window) ==
    [handler |-> handler, cmd |-> cmd, out |-> out, chunks |-> chunks,
     armed |-> armed, window |-> window]

\* The delivery experiment after a poll_serial that decoded cmd
harness_after(h, cmd) ==
    IF h.phase = "free" \/ cmd.op = "None" THEN h
    ELSE [h EXCEPT !.log = Append(@, cmd)]

\* usb_irq -> poll_serial, when usb_dev.poll is true and serial.read returns the
\* next n bytes of the wire: parse_command and the arm of the command it yields.
PollSerial(n) ==
    /\ ~halted
    /\ n \in 1..Min(Len(wire), ScratchLen - needle)
    /\ \E checks \in BOOLEAN, spurious \in BOOLEAN :
        LET p == parse_command(scratch, needle, SubSeq(wire, 1, n))
            cmd == p.cmd
            arm == cmd.op = "Arm"
        IN  /\ wire' = SubSeq(wire, n + 1, Len(wire))
            /\ scratch' = p.scratch
            /\ needle' = needle_after(cmd, p.needle)
            /\ trigger' = trigger_after(cmd, trigger)
            /\ sampler' = sampler_after(cmd, sampler, trigger, checks)
            /\ irq' = IF arm /\ sampler.sink = "InProgress"
                        THEN abort_irq(sampler.busy, irq, spurious)
                        ELSE irq
            /\ status_led' = (arm \/ status_led)
            /\ coproc' = IF arm THEN Restarted ELSE coproc
            /\ halted' = (arm /\ start_panics(sampler, trigger, checks))
            /\ last' = Ran("poll_serial", cmd, response(cmd), <<>>,
                           sampler.sink = "InProgress",
                           SubSeq(read_into(scratch, needle, SubSeq(wire, 1, n)),
                                  1, needle + n))
            /\ rearmed' = IF arm THEN sampler.sink = "InProgress" ELSE rearmed
            /\ harness' = harness_after(harness, cmd)
            /\ UNCHANGED sample_mem

\* dma_irq -> acquisition_done: Sampler::drain, then the status led goes low
AcquisitionDone ==
    /\ ~halted
    /\ irq
    /\ \E spurious \in BOOLEAN :
        LET armed == sampler.sink = "InProgress" IN
        /\ sampler' = drain(sampler)
        /\ irq' = IF armed THEN abort_irq(sampler.busy, FALSE, spurious) ELSE FALSE
        /\ status_led' = FALSE
        /\ last' = Ran("acquisition_done", NoCmd, drain_out(sampler, sample_mem),
                       IF armed THEN drain_order(sample_mem, sampler.samples) ELSE <<>>,
                       armed, <<>>)
        /\ UNCHANGED <<wire, scratch, needle, trigger, sample_mem, coproc, halted,
                       rearmed, harness>>

\* The DMA channel finishes the transfer of Sink::InProgress, which the state
\* machine feeds once it loops the wrap body: the buffer holds capture k and
\* the channel raises DMA_IRQ_0.
DmaComplete(k) ==
    /\ sampler.busy
    /\ capturing(sampler, coproc)
    /\ sample_mem' = FillMem(k)
    /\ sampler' = [sampler EXCEPT !.busy = FALSE]
    /\ irq' = TRUE
    /\ UNCHANGED <<wire, scratch, needle, trigger, status_led, coproc, halted, last,
                   rearmed, harness>>

\* The state machine runs the trigger stage it stands at once, on the pin
\* snapshot pins that the mov at the stage label takes
PioPass(pins) ==
    /\ at_stage(sampler, coproc)
    /\ LET r == run_stage(sampler.pio[1].code, coproc.pc, coproc.pc, pins,
                          mov_bit_reverse(pins), 0, 0)
       IN  coproc' = [pc |-> r.pc, label |-> coproc.pc, pins |-> pins,
                      through |-> r.through]
    /\ UNCHANGED <<wire, scratch, needle, trigger, sampler, sample_mem, irq,
                   status_led, halted, last, rearmed, harness>>

\* usb_irq -> poll_serial when the port has no byte to hand over: usb_dev.poll
\* returns false, or serial.read returns Ok(0) or an error and parse_command
\* returns None. Nothing is decoded, whatever scratch holds.
PollIdle ==
    /\ ~halted
    /\ last' = Ran("poll_serial", NoCmd, <<>>, <<>>, sampler.sink = "InProgress",
                   SubSeq(scratch, 1, needle))
    /\ UNCHANGED <<wire, scratch, needle, trigger, sampler, sample_mem, irq,
                   status_led, coproc, halted, rearmed, harness>>

\* The host writes the bytes f to the port
HostSend(f) ==
    /\ wire = <<>>
    /\ wire' = f
    /\ UNCHANGED <<scratch, needle, trigger, sampler, sample_mem, irq, status_led,
                   coproc, halted, last, rearmed, harness>>

----------------------------------------------------------------------------
(* The firmware after init: LogicAnalyzer::new *)

NoHarness == [phase |-> "free", stream |-> <<>>, log |-> <<>>, first |-> <<>>]

\* Everything but the trigger
BootWith(t) ==
    /\ scratch = [i \in 1..ScratchLen |-> 0]
    /\ needle = 0
    /\ trigger = t
    /\ sampler = NewSampler
    /\ sample_mem = EmptyMem
    /\ irq = FALSE
    /\ status_led = FALSE
    /\ coproc = Restarted
    /\ halted = FALSE
    /\ last = Ran("none", NoCmd, <<>>, <<>>, FALSE, <<>>)
    /\ rearmed = FALSE

Boot == BootWith(DefaultTrigger)

\* What the host sends in Spec, a frame at a time: Reset, Arm, GetId, two
\* read counts and three channel group settings
Frames ==
    {<<0>>, <<1>>, <<2>>,
     <<129, 1, 0, 0, 0>>, <<129, 5, 0, 0, 0>>,
     <<130, 0, 0, 0, 0>>, <<130, 4, 0, 0, 0>>, <<130, 8, 0, 0, 0>>}

Init ==
    /\ Boot
    /\ wire = <<>>
    /\ harness = NoHarness

\* What serial.read returns when every byte on the wire has reached the port
available == Min(Len(wire), ScratchLen - needle)

\* The firmware and its hardware, the bytes of the wire reaching the port in
\* pieces of any size
Device ==
    \/ \E n \in 1..ScratchLen : PollSerial(n)
    \/ \E k \in Fills : DmaComplete(k)
    \/ AcquisitionDone

\* In Spec a frame reaches the port in one piece, as one USB packet
Next ==
    \/ \E f \in Frames : HostSend(f)
    \/ PollSerial(available)
    \/ \E k \in Fills : DmaComplete(k)
    \/ AcquisitionDone

Spec == Init /\ [][Next]_vars

----------------------------------------------------------------------------
(* SpecParser: the host has sent one byte stream, which reaches the port in
   pieces of any size *)

\* First bytes: every opcode of the decode table and five of no arm
FirstBytes ==
    {0, 1, 2, 4, 128, 129, 130, 192, 196, 200, 204, 193, 197, 201, 205,
     194, 198, 202, 206, 3, 5, 131, 195, 255}

\* The bytes that follow: GetId's opcode and a byte with its high bits set
RestBytes == {2, 197}

RECURSIVE Tails(_)
\* The sequences of RestBytes of length up to n
Tails(n) ==
    IF n = 0 THEN {<<>>}
    ELSE LET shorter == Tails(n - 1) IN
         shorter \cup {Append(t, b) : t \in {u \in shorter : Len(u) = n - 1}, b \in RestBytes}

ParserStreams == {<<f>> \o t : f \in FirstBytes, t \in Tails(ScratchLen - 1)}

InitParser ==
    /\ Boot
    /\ wire \in ParserStreams
    /\ harness = NoHarness

SpecParser == InitParser /\ [][Device]_vars

----------------------------------------------------------------------------
(* SpecCompile: the trigger is drawn from TriggerSpecs and the host sends Arm *)

Ones32 == W32(65535, 65535)

\* (mask, pattern, delay) of a stage: disabled with and without pattern and
\* delay, one bit, a run of two bits above a zero, and every bit
StageSpecs ==
    {[mask |-> AsU32(0), pattern |-> AsU32(0), delay |-> AsU32(0)],
     [mask |-> AsU32(0), pattern |-> Ones32, delay |-> AsU32(7)],
     [mask |-> AsU32(1), pattern |-> AsU32(1), delay |-> AsU32(0)],
     [mask |-> AsU32(6), pattern |-> AsU32(2), delay |-> AsU32(0)],
     [mask |-> Ones32, pattern |-> W32(2, 1), delay |-> AsU32(0)]}

TriggerSpecs == [Stages -> StageSpecs]

InitCompile ==
    /\ \E t \in TriggerSpecs : BootWith(t)
    /\ wire = <<1>>
    /\ harness = NoHarness

\* The levels of the probe pins when a stage takes its snapshot: all low, pin
\* 0, pin 1 or pin 2 high, pins 4 and 17 high, pins 0 and 17 high
PinStates == {AsU32(0), AsU32(1), AsU32(2), AsU32(4), W32(2, 16), W32(2, 1)}

\* The firmware, its hardware and the state machine running the trigger stages
NextCompile ==
    \/ Device
    \/ \E pins \in PinStates : PioPass(pins)

SpecCompile == InitCompile /\ [][NextCompile]_vars

----------------------------------------------------------------------------
(* SpecFlood: the host has sent more bytes than scratch holds, which reach the
   port in pieces of any size *)

\* First bytes: Arm's opcode and the opcode of SetTriggerValues for stage 1
FloodFirst == {1, 197}

\* The streams of one byte more than scratch holds: a first byte, then bytes
\* of RestBytes
FloodStreams == {<<f>> \o t : f \in FloodFirst, t \in [1..ScratchLen -> RestBytes]}

InitFlood ==
    /\ Boot
    /\ wire \in FloodStreams
    /\ harness = NoHarness

SpecFlood == InitFlood /\ [][Device]_vars

----------------------------------------------------------------------------
(* SpecDivisor: the host has sent a SetDivisor frame and Arm, which reach the
   port in pieces of any size *)

\* Bytes 1 and 2 of the frame, the low 16 bits of the divisor
DivisorBytes == {0, 1, 255}

\* Bytes 3 and 4 of the frame, which the cast to u16 drops
HighBytes == {0, 1}

DivisorStreams ==
    {<<128, b1, b2, b3, 0, 1>> : b1 \in DivisorBytes, b2 \in DivisorBytes, b3 \in HighBytes}

InitDivisor ==
    /\ Boot
    /\ wire \in DivisorStreams
    /\ harness = NoHarness

SpecDivisor == InitDivisor /\ [][Device]_vars

----------------------------------------------------------------------------
(* SpecChunking: the delivery experiment. The host sends one byte stream to a
   freshly booted board, which the port hands over one byte per read; the
   board is power-cycled and the host sends the same stream again, which the
   port hands over in a single read. harness.log collects the commands
   parse_command yields, harness.first keeps those of the first run. *)

ChunkBytes == {0, 2, 130}

RECURSIVE StreamsOf(_)
\* The sequences of ChunkBytes of length 1..n
StreamsOf(n) ==
    IF n = 0 THEN {}
    ELSE LET shorter == StreamsOf(n - 1) IN
         shorter \cup {<<b>> : b \in ChunkBytes}
                 \cup {Append(t, b) : t \in {u \in shorter : Len(u) = n - 1}, b \in ChunkBytes}

InitChunking ==
    /\ Boot
    /\ wire \in StreamsOf(MaxStream)
    /\ harness = [phase |-> "bytes", stream |-> wire, log |-> <<>>, first |-> <<>>]

\* The power cycle between the two runs
Restart ==
    /\ harness.phase = "bytes"
    /\ wire = <<>>
    /\ scratch' = [i \in 1..ScratchLen |-> 0]
    /\ needle' = 0
    /\ trigger' = DefaultTrigger
    /\ sampler' = NewSampler
    /\ sample_mem' = EmptyMem
    /\ irq' = FALSE
    /\ status_led' = FALSE
    /\ coproc' = Restarted
    /\ halted' = FALSE
    /\ last' = Ran("none", NoCmd, <<>>, <<>>, FALSE, <<>>)
    /\ rearmed' = FALSE
    /\ wire' = harness.stream
    /\ harness' = [harness EXCEPT !.phase = "whole", !.first = harness.log, !.log = <<>>]

NextChunking ==
    \/ harness.phase = "bytes" /\ PollSerial(1)
    \/ Restart
    \/ harness.phase = "whole" /\ PollSerial(Len(wire))

SpecChunking == InitChunking /\ [][NextChunking]_vars

----------------------------------------------------------------------------
(* SpecConfig: the host sends a configuration frame or nothing, Arm, and one
   more frame while the acquisition runs; the bytes reach the port in pieces
   of any size and the state machine runs the trigger stages *)

\* Before Arm: nothing, SetDivisor(1), SetTriggerMask(0, 1),
\* SetTriggerValues(0, 1) or SetTriggerDelay(3, 2)
ConfigBefore ==
    {<<>>, <<128, 1, 0, 0, 0>>, <<192, 1, 0, 0, 0>>, <<193, 1, 0, 0, 0>>,
     <<206, 2, 0, 0, 0>>}

\* After Arm: Reset, Arm, GetId, GetMeta, a byte of no arm, SetDivisor(2),
\* SetReadCount(1), SetFlags(4), SetTriggerMask(0, 2), SetTriggerValues(1, 1),
\* SetTriggerDelay(2, 1), or SetDivisor(2) and then SetReadCount(1)
ConfigAfter ==
    {<<0>>, <<1>>, <<2>>, <<4>>, <<3>>,
     <<128, 2, 0, 0, 0>>, <<129, 1, 0, 0, 0>>, <<130, 4, 0, 0, 0>>,
     <<192, 2, 0, 0, 0>>, <<197, 1, 0, 0, 0>>, <<202, 1, 0, 0, 0>>,
     <<128, 2, 0, 0, 0, 129, 1, 0, 0, 0>>}

ConfigStreams == {b \o <<1>> \o a : b \in ConfigBefore, a \in ConfigAfter}

InitConfig ==
    /\ Boot
    /\ wire \in ConfigStreams
    /\ harness = NoHarness

\* The levels of the probe pins in SpecConfig: all low, pin 0 high
ConfigPins == {AsU32(0), AsU32(1)}

NextConfig ==
    \/ Device
    \/ \E pins \in ConfigPins : PioPass(pins)

SpecConfig == InitConfig /\ [][NextConfig]_vars

----------------------------------------------------------------------------
(* SpecLive: SpecConfig's streams, with USB interrupts that bring no bytes.
   Every byte the host has sent reaches the port and raises USBCTRL_IRQ, the
   interrupt keeps firing on bus events after that, and a pending DMA_IRQ_0
   is served. *)

NextLive ==
    \/ NextConfig
    \/ PollIdle

SpecLive ==
    /\ InitConfig
    /\ [][NextLive]_vars
    /\ WF_vars(\E n \in 1..ScratchLen : PollSerial(n))
    /\ WF_vars(PollIdle)
    /\ WF_vars(AcquisitionDone)

----------------------------------------------------------------------------
(* The claims *)

\* The most recent handler run was a poll_serial that read bytes
Polled == last.handler = "poll_serial"

\* The most recent handler run was a drain that found the sink InProgress
ArmedDrain == last.handler = "acquisition_done" /\ last.armed

\* C1: a byte stream delivered one byte per read yields the same ordered list
\* of decoded commands as the same stream delivered in a single read.
C1_ChunkingInvariance ==
    (harness.phase = "whole" /\ wire = <<>>) => harness.log = harness.first

\* The bytes drain writes per chunk for the channel groups enabled
BytesPerChunk ==
    IF sampler.ch_groups = <<TRUE, TRUE>> THEN 8
    ELSE IF sampler.ch_groups = <<FALSE, FALSE>> THEN 0
    ELSE 4

\* C2 as amended: a drain that runs while Armed emits min(sampleCount + 1,
\* number of chunks of the capture buffer) chunks, of 8, 4 or 0 bytes each for
\* 2, 1 or 0 enabled channel groups.
C2_DrainLength ==
    ArmedDrain =>
        /\ Len(last.chunks) = Min(sampler.samples + 1, MemChunks)
        /\ Len(last.out) = Min(sampler.samples + 1, MemChunks) * BytesPerChunk

\* C2 as claimed: a drain that runs while Armed emits sampleCount + 1 chunks
\* and (sampleCount + 1) * 8, 4 or 0 bytes, for every sampleCount.
C2_Original ==
    ArmedDrain =>
        /\ Len(last.chunks) = sampler.samples + 1
        /\ Len(last.out) = (sampler.samples + 1) * BytesPerChunk

C2_Witness ==
    /\ ArmedDrain
    /\ sampler.samples >= MemChunks
    /\ sampler.ch_groups = <<TRUE, TRUE>>
    /\ Len(last.out) = 8 * MemChunks

\* b"1ALS" and the metadata block, byte by byte
IdBytes == <<49, 65, 76, 83>>

MetaBytes ==
    <<1, 117, 76, 65, 58, 32, 77, 105, 99, 114, 111, 32, 76, 111, 103, 105, 99,
      32, 65, 110, 97, 108, 121, 122, 101, 114, 0,
      32, 0, 0, 0, 16,
      33, 0, 3, 13, 64,
      35, 5, 245, 225, 0,
      36, 0, 0, 0, 2, 0>>

\* C3: the bytes poll_serial writes are decided by the command alone: GetId
\* writes "1ALS", GetMeta the metadata block, every other command (and no
\* command) nothing.
C3_ResponseByCommand ==
    Polled =>
        last.out = IF last.cmd.op = "GetId" THEN IdBytes
                   ELSE IF last.cmd.op = "GetMeta" THEN MetaBytes
                   ELSE <<>>

C3_Witness ==
    /\ Polled
    /\ last.cmd.op = "GetId"
    /\ last.window = <<2>>
    /\ last.out = IdBytes

\* The opcodes of the decode table
ShortOpcodes == {0, 1, 2, 4}

LongOpcodes == {128, 129, 130, 192, 196, 200, 204, 193, 197, 201, 205, 194, 198, 202, 206}

\* The command of the decode table for the 5-byte frame at the front of w
TableCommand(w) ==
    LET lo16 == w[2] + 256 * w[3]
        hi16 == w[4] + 256 * w[5]
    IN  IF w[1] = 128 THEN Cmd("SetDivisor", 0, lo16)
        ELSE IF w[1] = 129 THEN Cmd("SetReadCount", 0, lo16)
        ELSE IF w[1] = 130 THEN Cmd("SetFlags", 0, w[2])
        ELSE IF w[1] % 4 = 0 THEN Cmd("SetTriggerMask", (w[1] - 192) \div 4, W32(hi16, lo16))
        ELSE IF w[1] % 4 = 1 THEN Cmd("SetTriggerValues", (w[1] - 193) \div 4, W32(hi16, lo16))
        ELSE Cmd("SetTriggerDelay", (w[1] - 194) \div 4, W32(0, lo16))

\* parse_command removed exactly the first k bytes of the window w
Removed(w, k) == \A i \in 1..(Len(w) - k) : scratch[i] = w[i + k]

\* C4: with at least 5 bytes buffered and a long-form opcode first,
\* parse_command consumes exactly 5 bytes and yields the command of the decode
\* table, its stage in 0..3 and its operand little-endian from bytes 1..5.
C4_LongFrames ==
    (Polled /\ Len(last.window) >= 5 /\ last.window[1] \in LongOpcodes) =>
        /\ last.cmd = TableCommand(last.window)
        /\ last.cmd.stage \in 0..3
        /\ needle = Len(last.window) - 5
        /\ Removed(last.window, 5)

C4_Witness ==
    /\ Polled
    /\ last.cmd.op = "SetTriggerValues"
    /\ last.cmd.stage = 3
    /\ last.cmd.arg = W32(2 + 256 * 197, 197 + 256 * 2)
    /\ needle = 1

\* The name of the command of a short opcode
ShortName(b) ==
    IF b = 0 THEN "Reset" ELSE IF b = 1 THEN "Arm" ELSE IF b = 2 THEN "GetId" ELSE "GetMeta"

\* C5: a read that leaves 0x00, 0x01, 0x02 or 0x04 first in the buffer yields
\* Reset, Arm, GetId or GetMeta from that one byte, whatever follows it: the
\* bytes behind it move up by one (after which the Reset arm of poll_serial
\* sets needle to 0).
C5_ShortFrames ==
    (Polled /\ Len(last.window) >= 1 /\ last.window[1] \in ShortOpcodes) =>
        /\ last.cmd = Cmd(ShortName(last.window[1]), 0, 0)
        /\ Removed(last.window, 1)
        /\ needle = IF last.window[1] = 0 THEN 0 ELSE Len(last.window) - 1

C5_Witness ==
    /\ Polled
    /\ last.cmd.op = "GetMeta"
    /\ Len(last.window) = ScratchLen
    /\ last.window[2] = 197
    /\ needle = ScratchLen - 1

\* C6: with at least 5 bytes buffered and a first byte that is no opcode of
\* the decode table, parse_command yields no command, removes exactly the
\* first byte, and poll_serial changes nothing else: trigger, sampler, capture
\* buffer, interrupt, led and output stay as they were.
C6_Resync ==
    [][(/\ Len(wire') < Len(wire)
        /\ Len(last'.window) >= 5
        /\ last'.window[1] \notin ShortOpcodes \cup LongOpcodes)
       => (/\ last'.cmd = NoCmd
           /\ needle' = Len(last'.window) - 1
           /\ \A i \in 1..needle' : scratch'[i] = last'.window[i + 1]
           /\ last'.out = <<>>
           /\ UNCHANGED <<trigger, sampler, sample_mem, irq, status_led, halted>>)]_vars

C6_Witness ==
    /\ Polled
    /\ last.cmd = NoCmd
    /\ Len(last.window) = ScratchLen
    /\ last.window[1] = 195
    /\ needle = ScratchLen - 1
    /\ scratch[1] = last.window[2]

\* C7 as amended: a drain that runs while Armed visits the chunks in reverse
\* capture order, from chunk min(sampleCount, number of chunks - 1) down to
\* chunk 0, each index once, descending by one.
C7_ReverseOrder ==
    ArmedDrain =>
        /\ last.chunks # <<>>
        /\ last.chunks[1] = Min(sampler.samples, MemChunks - 1)
        /\ last.chunks[Len(last.chunks)] = 0
        /\ \A i \in 1..(Len(last.chunks) - 1) : last.chunks[i + 1] = last.chunks[i] - 1

\* C7 as claimed: the chunk at index sampleCount is written first and the
\* chunk at index 0 last, the indices between descending.
C7_Original ==
    ArmedDrain =>
        /\ last.chunks # <<>>
        /\ last.chunks[1] = sampler.samples
        /\ last.chunks[Len(last.chunks)] = 0
        /\ \A i \in 1..(Len(last.chunks) - 1) : last.chunks[i + 1] = last.chunks[i] - 1

C7_Witness ==
    /\ ArmedDrain
    /\ sampler.samples = 1
    /\ last.chunks = <<1, 0>>

\* Byte j (0..3) of the little-endian bytes of word i (1-based) of the buffer
MemByte(i, j) ==
    LET half == IF j < 2 THEN sample_mem[i].lo ELSE sample_mem[i].hi IN
    IF j % 2 = 0 THEN half % 256 ELSE half \div 256

\* The bytes the emission rule gives chunk c (0-based): G_even is the chunk's
\* second word, G_odd its first
ChunkBytesOf(c) ==
    LET even == 2 * c + 2
        odd == 2 * c + 1
    IN  IF sampler.ch_groups = <<TRUE, FALSE>> THEN
            <<MemByte(even, 0), MemByte(even, 2), MemByte(odd, 0), MemByte(odd, 2)>>
        ELSE IF sampler.ch_groups = <<FALSE, TRUE>> THEN
            <<MemByte(even, 1), MemByte(even, 3), MemByte(odd, 1), MemByte(odd, 3)>>
        ELSE IF sampler.ch_groups = <<TRUE, TRUE>> THEN
            <<MemByte(even, 0), MemByte(even, 1), MemByte(even, 2), MemByte(even, 3),
              MemByte(odd, 0), MemByte(odd, 1), MemByte(odd, 2), MemByte(odd, 3)>>
        ELSE <<>>

\* C8: the bytes of every emitted chunk are those of the emission rule: group
\* 0 alone G_even[0], G_even[2], G_odd[0], G_odd[2]; group 1 alone G_even[1],
\* G_even[3], G_odd[1], G_odd[3]; both G_even then G_odd; neither nothing.
C8_ChunkBytes ==
    ArmedDrain =>
        /\ Len(last.out) = Len(last.chunks) * BytesPerChunk
        /\ \A p \in 1..Len(last.chunks) :
            SubSeq(last.out, (p - 1) * BytesPerChunk + 1, p * BytesPerChunk)
                = ChunkBytesOf(last.chunks[p])

C8_Witness ==
    /\ ArmedDrain
    /\ sampler.ch_groups = <<FALSE, TRUE>>
    /\ sample_mem = FillMem(2)
    /\ Len(last.out) >= 8
    /\ SubSeq(last.out, 5, 8)
        = <<FillByte(2, 2, 1), FillByte(2, 2, 3), FillByte(2, 1, 1), FillByte(2, 1, 3)>>

\* C9: a drain that runs while Armed leaves the engine in StandBy, the sink
\* holding channel, rx and buffer, the state machine held and no transfer
\* running; so does the drain after a start that found the engine Armed.
C9_DrainReturnsToStandBy ==
    ArmedDrain => (sampler.sink = "StandBy" /\ sampler.ingest /\ ~sampler.busy)

C9_Witness ==
    /\ ArmedDrain
    /\ rearmed
    /\ sampler.sink = "StandBy"

\* C10: compile of a trigger whose four masks are 0 gives the wrap body
\* alone, the single instruction in pins 16, whatever the patterns and delays.
C10_NoStages ==
    (Polled /\ last.cmd.op = "Arm" /\ \A st \in Stages : trigger[st].mask = AsU32(0)) =>
        /\ Len(sampler.pio) = 1
        /\ sampler.pio[1].code = <<[op |-> "in", arg |-> "PINS", n |-> 16]>>

C10_Witness ==
    /\ Polled
    /\ last.cmd.op = "Arm"
    /\ \A st \in Stages : trigger[st].mask = AsU32(0)
    /\ trigger[1].pattern = Ones32
    /\ trigger[1].delay = AsU32(7)
    /\ sampler.pio[1].code = <<[op |-> "in", arg |-> "PINS", n |-> 16]>>

\* The most recent handler run was a poll_serial whose Arm made start return
Started == Polled /\ last.cmd.op = "Arm" /\ ~halted

RECURSIVE stage_label(_, _)
\* The address the label of stage st is bound at (that of the wrap target for
\* st = 4): the enabled stages before it, each a mov and its compares
stage_label(t, st) ==
    IF st = 0 THEN 0
    ELSE stage_label(t, st - 1)
            + (IF t[st - 1].mask # AsU32(0) THEN Len(compile_stage(t[st - 1], 0)) ELSE 0)

\* The instructions of the installed program that belong to stage st
StageCode(st) ==
    SubSeq(sampler.pio[1].code, stage_label(trigger, st) + 1, stage_label(trigger, st + 1))

\* The bit counts of the instructions of code that extract bits to compare
CompareSizes(code) ==
    LET outs == SelectSeq(code, LAMBDA ins : ins.op = "out" /\ ins.arg = "X")
    IN  [i \in 1..Len(outs) |-> outs[i].n]

\* How many instructions of code have the operation op and the operand arg
CountOf(code, op, arg) ==
    Len(SelectSeq(code, LAMBDA ins : ins.op = op /\ ins.arg = arg))

RECURSIVE RunLength(_, _)
\* The number of consecutive one bits of the mask m from bit i upward
RunLength(m, i) ==
    IF i > 31 \/ WordBit(m, i) = 0 THEN 0 ELSE 1 + RunLength(m, i + 1)

RECURSIVE GreedyChunks(_)
\* A run of n bits in chunks of 5, the remainder last
GreedyChunks(n) ==
    IF n = 0 THEN <<>> ELSE IF n <= 5 THEN <<n>> ELSE <<5>> \o GreedyChunks(n - 5)

RECURSIVE MaskChunks(_, _)
\* The chunks of every run of one bits of the mask m from bit i upward
MaskChunks(m, i) ==
    IF i > 31 THEN <<>>
    ELSE IF WordBit(m, i) = 0 THEN MaskChunks(m, i + 1)
    ELSE GreedyChunks(RunLength(m, i)) \o MaskChunks(m, i + RunLength(m, i))

\* C11: the compares of every stage extract the runs of one bits of its mask
\* from the low bit upward in chunks of at most 5 bits taken greedily; a stage
\* 0 of mask 0xFFFFFFFF has exactly 7 compare chunks, of 5, 5, 5, 5, 5, 5 and 2
\* bits in that order, each a set, an out and a jmp, and no discard.
C11_GreedyChunks ==
    Started =>
        /\ \A st \in Stages :
            /\ CompareSizes(StageCode(st)) = MaskChunks(trigger[st].mask, 0)
            /\ \A i \in 1..Len(CompareSizes(StageCode(st))) :
                CompareSizes(StageCode(st))[i] \in 1..5
        /\ trigger[0].mask = W32(65535, 65535) =>
            /\ CompareSizes(StageCode(0)) = <<5, 5, 5, 5, 5, 5, 2>>
            /\ CountOf(StageCode(0), "set", "Y") = 7
            /\ CountOf(StageCode(0), "jmp", "XNotEqualY") = 7
            /\ CountOf(StageCode(0), "out", "NULL") = 0
            /\ Len(StageCode(0)) = 22

C11_Witness ==
    /\ Started
    /\ trigger[0].mask = W32(65535, 65535)
    /\ trigger[1].mask = AsU32(6)
    /\ CompareSizes(StageCode(0)) = <<5, 5, 5, 5, 5, 5, 2>>
    /\ CompareSizes(StageCode(1)) = <<2>>

\* The length of the frame of a decoded command
FrameLength(cmd) == IF cmd.op \in {"Reset", "Arm", "GetId", "GetMeta"} THEN 1 ELSE 5

\* C12 as amended: after poll_serial decoded and applied a command other than
\* Reset, exactly the bytes of its frame (1 or 5) are removed: the bytes that
\* were buffered behind the frame are still buffered, in the same order, and
\* needle has decreased by the frame length. After Reset needle is 0: the
\* frame and every byte buffered behind it are dropped.
C12_FifoFraming ==
    (Polled /\ last.cmd.op # "None") =>
        IF last.cmd.op = "Reset" THEN needle = 0
        ELSE /\ needle = Len(last.window) - FrameLength(last.cmd)
             /\ Removed(last.window, FrameLength(last.cmd))

\* C12 as claimed: after poll_serial decoded and applied a command of any
\* type, exactly the bytes of its frame are removed, the bytes behind it are
\* still buffered in order and needle has decreased by the frame length.
C12_Original ==
    (Polled /\ last.cmd.op # "None") =>
        /\ needle = Len(last.window) - FrameLength(last.cmd)
        /\ Removed(last.window, FrameLength(last.cmd))

C12_Witness ==
    /\ Polled
    /\ last.cmd.op = "Reset"
    /\ Len(last.window) = 3
    /\ last.window[2] = 2
    /\ needle = 0

\* C13: when the start of an Arm command returns, the sink is InProgress with
\* its transfer running, whether the sink was StandBy or InProgress before
\* (then the transfer in flight was aborted); the program installed is the
\* one compiled for this Arm and the state machine runs it from its origin.
C13_StartArms ==
    [][(Len(wire') < Len(wire) /\ last'.cmd.op = "Arm" /\ ~halted')
       => (/\ sampler.sink \in {"StandBy", "InProgress"}
           /\ sampler'.sink = "InProgress"
           /\ sampler'.busy
           /\ sampler'.ingest
           /\ sampler'.pio = <<compile(trigger)>>
           /\ coproc' = Restarted
           /\ rearmed' = (sampler.sink = "InProgress")
           /\ UNCHANGED <<trigger, sample_mem>>)]_vars

C13_Witness ==
    /\ Started
    /\ last.armed
    /\ rearmed
    /\ sampler.sink = "InProgress"
    /\ sampler.busy
    /\ sample_mem = FillMem(1)

\* C14: between handler runs of the running firmware the sink is exactly one
\* of StandBy and InProgress, holding channel, rx and buffer; a transfer is
\* outstanding only while the sink is InProgress, and there is never more than
\* the one the sink holds. (A handler run that panics never ends.)
C14_SingleOwner ==
    ~halted =>
        /\ sampler.sink \in {"StandBy", "InProgress"}
        /\ sampler.busy => sampler.sink = "InProgress"
        /\ sampler.ingest
        /\ Len(sampler.pio) = 1

C14_Witness ==
    /\ ~halted
    /\ Started
    /\ last.armed
    /\ irq
    /\ sampler.sink = "InProgress"
    /\ sampler.busy
    /\ status_led

\* C15: when the program compiled for an Arm has more instructions than the
\* 32 of the program slot, start reports the error and returns: the firmware
\* does not halt, the sink stays StandBy and the program installed before
\* stays installed.
C15_ProgramTooLarge ==
    (Polled /\ last.cmd.op = "Arm" /\ ~last.armed
        /\ Len(compile_code(trigger)) > PROGRAM_SIZE) =>
        /\ ~halted
        /\ sampler.sink = "StandBy"
        /\ sampler.ingest
        /\ sampler.pio = <<DefaultProgram>>

\* The snapshot s and the pattern p agree on every bit set in the mask m:
\* (s & m) == (p & m)
Agree(s, m, p) == \A i \in 0..31 : WordBit(m, i) = 1 => WordBit(s, i) = WordBit(p, i)

\* C16: a run of the compares of an enabled stage with mask m and pattern p on
\* the pin snapshot s falls through (takes no jump back to the stage label) if
\* and only if (s & m) == (p & m), for single-bit runs and multi-bit chunks
\* alike.
C16_StageMatch ==
    \A st \in Stages :
        (/\ sampler.ingest
         /\ sampler.pio = <<compile(trigger)>>
         /\ trigger[st].mask # AsU32(0)
         /\ coproc.label = stage_label(trigger, st))
        => (coproc.through <=> Agree(coproc.pins, trigger[st].mask, trigger[st].pattern))

\* C17: for every divisor SetDivisor can set, the start of an Arm returns and
\* the clock divider of the state machine is divisor + 1, the u16 passed to
\* clock_divisor_fixed_point being divisor + 1 itself, not wrapped around.
C17_ClockDivider ==
    (Polled /\ last.cmd.op = "Arm") =>
        /\ ~halted
        /\ sampler.sink = "InProgress"
        /\ effective_divider(sampler.clkdiv) = sampler.divisor + 1
        /\ sampler.clkdiv = sampler.divisor + 1

\* C18: a read that leaves fewer than 5 bytes buffered, the first of them none
\* of 0x00, 0x01, 0x02, 0x04, yields no command and removes nothing: the
\* buffer holds the bytes it held plus those read, needle counts them all, and
\* nothing is written.
C18_IncompleteFrame ==
    (Polled /\ Len(last.window) < 5 /\ last.window[1] \notin ShortOpcodes) =>
        /\ last.cmd = NoCmd
        /\ needle = Len(last.window)
        /\ SubSeq(scratch, 1, needle) = last.window
        /\ last.out = <<>>

C18_Witness ==
    /\ Polled
    /\ last.cmd = NoCmd
    /\ last.window = <<192, 2, 197, 2>>
    /\ needle = 4
    /\ wire # <<>>

\* The names of the long-form commands
LongNames ==
    {"SetDivisor", "SetReadCount", "SetFlags", "SetTriggerMask", "SetTriggerValues",
     "SetTriggerDelay"}

\* C19: needle stays within 0..ScratchLen (64 in the source): a read appends
\* no more than the free capacity, drain_rx takes no more than is buffered,
\* and a long-form command, whose decoding reads bytes 1..5, is decoded only
\* from 5 or more buffered bytes.
C19_NeedleBounds ==
    /\ needle \in 0..ScratchLen
    /\ Len(scratch) = ScratchLen
    /\ Polled =>
        /\ Len(last.window) \in 1..ScratchLen
        /\ needle <= Len(last.window)
        /\ last.cmd.op \in LongNames => Len(last.window) >= 5

C19_Witness ==
    /\ Polled
    /\ Len(last.window) = ScratchLen
    /\ last.cmd.op = "SetTriggerValues"
    /\ needle = ScratchLen - 5
    /\ wire # <<>>

\* C20: an acquisition_done that finds the sink StandBy writes nothing and
\* leaves sampler (sink, program, divisor, samples, channel groups), capture
\* buffer, trigger and state machine as they were; a drain emits chunks only
\* in a step from InProgress to StandBy, and the sink becomes InProgress only
\* by an Arm command, so data is emitted at most once per Arm.
C20_StandByDrain ==
    [][/\ (irq /\ ~irq' /\ sampler.sink = "StandBy")
            => (/\ last'.handler = "acquisition_done"
                /\ last'.out = <<>>
                /\ last'.chunks = <<>>
                /\ sampler' = sampler
                /\ UNCHANGED <<sample_mem, trigger, coproc, scratch, needle, wire, halted>>)
       /\ (last' # last /\ last'.handler = "acquisition_done" /\ last'.chunks # <<>>)
            => (sampler.sink = "InProgress" /\ sampler'.sink = "StandBy")
       /\ (sampler.sink # "InProgress" /\ sampler'.sink = "InProgress")
            => (Len(wire') < Len(wire) /\ last'.cmd.op = "Arm")]_vars

C20_Witness ==
    /\ last.handler = "acquisition_done"
    /\ ~last.armed
    /\ last.out = <<>>
    /\ sampler.sink = "StandBy"
    /\ sampler.ch_groups = <<TRUE, TRUE>>
    /\ sample_mem = FillMem(2)
    /\ ~irq

\* C21: at most one program is installed in the PIO at any time: Sampler::new
\* installs the default program, and every start uninstalls the program
\* installed before and installs the one it compiled, which is then the only
\* one.
C21_OneProgram ==
    /\ sampler.pio = <<DefaultProgram>>
    /\ [](Len(sampler.pio) <= 1)
    /\ [][(Len(wire') < Len(wire) /\ last'.cmd.op = "Arm" /\ ~halted')
            => sampler'.pio = <<compile(trigger)>>]_vars
    /\ [][sampler'.pio # sampler.pio
            => (Len(wire') < Len(wire) /\ last'.cmd.op = "Arm")]_vars

C21_Witness ==
    /\ Started
    /\ rearmed
    /\ sampler.pio = <<compile(trigger)>>
    /\ sampler.pio # <<DefaultProgram>>
    /\ ~sampler.busy
    /\ irq

\* C22 as amended: in StandBy the default program is installed only until
\* the first Arm. A drain leaves the installed program alone: in the StandBy
\* that follows an armed and drained acquisition the program compiled for the
\* latest Arm is still installed, until the next start replaces it.
C22_ProgramInStandBy ==
    /\ (sampler.sink = "StandBy" /\ sampler.pio = <<DefaultProgram>>)
    /\ [](ArmedDrain =>
            /\ sampler.sink = "StandBy"
            /\ sampler.pio = <<compile(trigger)>>
            /\ sampler.pio # <<DefaultProgram>>)
    /\ [][sampler'.pio # sampler.pio => sampler'.sink = "InProgress"]_vars

\* C22 as claimed: whenever the sink is StandBy the installed program is the
\* default one, a compiled program being installed only while it is
\* InProgress.
C22_Original ==
    sampler.sink = "StandBy" => sampler.pio = <<DefaultProgram>>

C22_Witness ==
    /\ ArmedDrain
    /\ sampler.sink = "StandBy"
    /\ sampler.pio = <<compile(trigger)>>
    /\ capturing(sampler, coproc)
    /\ ~irq

\* The addresses of the stage labels of the installed program and of its
\* wrap target
Labels == {stage_label(trigger, st) : st \in 0..4}

\* The label of the stage the instruction at address a belongs to
OwnLabel(a) == CHOOSE l \in Labels : l <= a /\ \A k \in Labels : k <= a => k <= l

\* The label that follows the stage at address a
NextLabel(a) == CHOOSE l \in Labels : l > a /\ \A k \in Labels : k > a => l <= k

\* The program of a start is installed and its state machine runs
Running ==
    sampler.ingest /\ sampler.pio = <<compile(trigger)>> /\ sampler.sink # "None"

\* C23: the state machine goes through the enabled stages in stage order.
\* Every jmp of a stage goes to the label of that stage; a pass of a stage
\* either starts the same stage over or moves on to the next enabled stage
\* (the wrap body after the last); the wrap body is the single in
\* instruction, wrapping onto itself, and once the state machine is there it
\* stays there until the next start: no stage runs again.
C23_StageOrder ==
    /\ [](Running =>
            LET prog == sampler.pio[1] IN
            /\ prog.wrap_target = Len(prog.code) - 1
            /\ prog.wrap_source = prog.wrap_target
            /\ prog.code[prog.wrap_target + 1].op = "in"
            /\ \A a \in 0..(Len(prog.code) - 1) :
                prog.code[a + 1].op = "jmp" => prog.code[a + 1].n = OwnLabel(a))
    /\ [][(Running /\ coproc' # coproc /\ Len(wire') = Len(wire))
            => (/\ at_stage(sampler, coproc)
                /\ coproc.pc \in Labels
                /\ coproc'.label = coproc.pc
                /\ coproc'.pc = IF coproc'.through THEN NextLabel(coproc.pc)
                                                  ELSE coproc.pc
                /\ coproc'.pc >= coproc.pc)]_vars
    /\ [][(Running /\ capturing(sampler, coproc) /\ Len(wire') = Len(wire))
            => (coproc' = coproc /\ capturing(sampler', coproc'))]_vars

C23_Witness ==
    /\ Running
    /\ trigger[0].mask # AsU32(0)
    /\ trigger[1].mask # AsU32(0)
    /\ coproc.label = stage_label(trigger, 1)
    /\ coproc.label > 0
    /\ coproc.through
    /\ capturing(sampler, coproc)
    /\ sampler.sink = "StandBy"

\* The commands that name a field of a trigger stage
TriggerOps == {"SetTriggerMask", "SetTriggerValues", "SetTriggerDelay"}

\* The step is a poll_serial whose parse_command yields a command of ops
Decodes(ops) == Len(wire') < Len(wire) /\ last'.cmd.op \in ops

\* The fields of the stages of the trigger after the step are those before,
\* but for field fld of stage st, which is v
OnlyField(st, fld, v) ==
    \A k \in Stages :
        /\ trigger'[k].mask = IF k = st /\ fld = "mask" THEN v ELSE trigger[k].mask
        /\ trigger'[k].pattern = IF k = st /\ fld = "pattern" THEN v ELSE trigger[k].pattern
        /\ trigger'[k].delay = IF k = st /\ fld = "delay" THEN v ELSE trigger[k].delay

\* C24: SetTriggerMask, SetTriggerValues and SetTriggerDelay store their
\* argument in the mask, the pattern and the delay of the stage they name and
\* leave every other field of every stage as it was; no other step (a
\* poll_serial that decodes any other command, none, or drops bytes to
\* resync, a drain, the hardware) changes the trigger.
C24_TriggerFrame ==
    /\ [][Decodes({"SetTriggerMask"})
            => (last'.cmd.stage \in Stages
                /\ OnlyField(last'.cmd.stage, "mask", last'.cmd.arg))]_vars
    /\ [][Decodes({"SetTriggerValues"})
            => (last'.cmd.stage \in Stages
                /\ OnlyField(last'.cmd.stage, "pattern", last'.cmd.arg))]_vars
    /\ [][Decodes({"SetTriggerDelay"})
            => (last'.cmd.stage \in Stages
                /\ OnlyField(last'.cmd.stage, "delay", last'.cmd.arg))]_vars
    /\ [][~Decodes(TriggerOps) => trigger' = trigger]_vars

C24_Witness ==
    /\ ArmedDrain
    /\ wire = <<>>
    /\ needle = 0
    /\ trigger[0].pattern = AsU32(1)
    /\ trigger[0].mask = AsU32(0)
    /\ trigger[2].delay = AsU32(1)
    /\ trigger[1] = DefaultTrigger[1]
    /\ trigger[3] = DefaultTrigger[3]

\* C25: the program and the clock divider of an acquisition are those start
\* builds from the trigger and the divisor in force when Arm is handled: a
\* SetTrigger* or SetDivisor handled while the acquisition runs changes the
\* stored trigger or divisor and leaves the installed program, the clock
\* divider, the state machine and the transfer alone. The drain formats its
\* output with the sample count and the channel groups in force when it
\* runs, whatever they were at Arm.
C25_BindingTimes ==
    /\ [][(Decodes({"Arm"}) /\ ~halted')
            => (/\ sampler'.pio = <<compile(trigger)>>
                /\ sampler'.clkdiv = clock_divisor(sampler.divisor))]_vars
    /\ [][(Decodes(TriggerOps \cup {"SetDivisor"}) /\ sampler.sink = "InProgress")
            => (/\ sampler'.pio = sampler.pio
                /\ sampler'.clkdiv = sampler.clkdiv
                /\ sampler'.sink = "InProgress"
                /\ sampler'.busy = sampler.busy
                /\ UNCHANGED <<coproc, sample_mem, irq>>
                /\ (trigger' # trigger \/ sampler'.divisor = last'.cmd.arg))]_vars
    /\ [](ArmedDrain =>
            /\ Len(last.chunks) = Min(sampler.samples + 1, MemChunks)
            /\ Len(last.out) = Len(last.chunks) * BytesPerChunk
            /\ \A p \in 1..Len(last.chunks) :
                SubSeq(last.out, (p - 1) * BytesPerChunk + 1, p * BytesPerChunk)
                    = ChunkBytesOf(last.chunks[p]))

C25_Witness ==
    /\ ArmedDrain
    /\ ~rearmed
    /\ sampler.samples = 1
    /\ last.chunks = <<1, 0>>
    /\ sampler.divisor = 2
    /\ sampler.clkdiv = 1
    /\ sampler.pio = <<compile(trigger)>>

\* scratch holds a frame parse_command would decode or drop if it looked: a
\* short opcode at byte 0, or at least 5 bytes
Decodable == needle >= 1 /\ (scratch[1] \in ShortOpcodes \/ needle >= 5)

\* C26: once every byte the host has sent has been read, a frame that is
\* decodable in the buffer is eventually decoded and leaves it, without any
\* further byte from the host.
C26_EventuallyDecoded == (wire = <<>> /\ Decodable) ~> ~Decodable

====
